---- MODULE Spec2Model ----
(***************************************************************************)
(* Model of the PDF translation pipeline of renfu-her/translation-pdf:     *)
(* PDFTranslator (src/pdf_translator.py) and the GUI worker thread         *)
(* TranslationWorker (src/gui.py).                                         *)
(*                                                                         *)
(* A text is a sequence of characters; a character is a one-element        *)
(* string, or the name of its code point ("U4F60") for a CJK ideograph.    *)
(* Language tags are texts too ('en' is <<"e","n">>), so that the cache    *)
(* key f"{source_lang}:{text}" is computed by concatenation as in the      *)
(* code.  External collaborators (langdetect, the translation backends,    *)
(* PyMuPDF) are nondeterministic: every call either raises or returns one  *)
(* of a small set of values.                                               *)
(***************************************************************************)
EXTENDS Integers, Sequences, FiniteSets, TLC

VARIABLES
    \* ---- PDFTranslator instance (pdf_translator.py:55-73)
    translator_service,     \* self.translator_service
    auto_detect_language,   \* self.auto_detect_language
    api_key,                \* self.api_key
    base_url,               \* self.base_url
    model_name,             \* self.model_name
    translation_cache,      \* self.translation_cache : key -> translated text
    language_cache,         \* self.language_cache    : text -> language tag
    USE_LANGDETECT,         \* module flag: langdetect could be imported
    \* ---- direct calls of the translator's public methods
    calls,                  \* the calls made so far, each with what it did
    \* ---- one pass of the document driver (CLI translate_pdf / GUI worker)
    mode,                   \* "api" | "cli" | "gui"
    pc,                     \* position of the driver
    input_exists,           \* os.path.exists(input_path)
    total_pages,            \* len(doc)
    page_num,               \* loop variable of the page loop (0-based)
    page,                   \* text now readable at each bbox of the page
    text_blocks,            \* extract_text_blocks(page)
    block_idx,              \* number of blocks of the page already handled
    doc_open,               \* the driver holds an open document handle
    saved,                  \* doc.save(output_path) has returned
    save_invoked,           \* number of calls of doc.save
    _cancelled,             \* TranslationWorker._cancelled
    signals,                \* finished / error_occurred emitted by run()
    raised,                 \* the driver ended by raising to its caller
    \* ---- observation of the pass
    ev,                     \* what the driver did for the last block
    observed_cancel,        \* a check of _cancelled has read True
    modified,               \* a region of some page was erased or rewritten
    backend_calls,          \* backend calls of the pass: "none", all "fail", some "ok"
    io_failed               \* fitz.open or doc.save has raised

translator_vars == <<translator_service, auto_detect_language, api_key, base_url,
                     model_name, translation_cache, language_cache, USE_LANGDETECT>>
driver_vars == <<mode, pc, input_exists, total_pages, page_num, page,
                 text_blocks, block_idx, doc_open, saved, save_invoked, _cancelled,
                 signals, raised, ev, observed_cancel, modified, backend_calls, io_failed>>
vars == <<translator_vars, calls, driver_vars>>

----------------------------------------------------------------------------
\* Bounds of the model.
MaxCalls == 2       \* direct calls of translate_text / detect_language
MaxPages == 3       \* pages of a document
MaxFrags == 2       \* spans of a page

----------------------------------------------------------------------------
\* Characters and texts.
Latin  == {"a", "c", "e", "h", "i", "n", "o", "t", "u", "w", "z"}
Digits == {"1"}
Punct  == {":", ".", "-"}
Space  == {" "}
CJK    == {"U4F60", "U597D"}        \* U+4F60, U+597D: inside U+4E00..U+9FFF

None == <<"<None>">>                \* Python's None, where a text may stand

T_empty == << >>
T_sp    == <<" ">>
T_hi    == <<"h", "i">>
T_hi_sp == <<"h", "i", " ">>
T_en_hi == <<"e", "n", ":", "h", "i">>
T_num   == <<"1", ".">>
T_mix   == <<"h", "U4F60">>

EN    == <<"e", "n">>
ZH    == <<"z", "h">>
AUTO  == <<"a", "u", "t", "o">>
ZH_CN == <<"z", "h", "-", "c", "n">>
ZH_TW == <<"z", "h", "-", "t", "w">>

\* Texts and source languages the direct calls are made with.
Texts == {T_empty, T_sp, T_hi, T_hi_sp, T_en_hi, T_mix}
Langs == {None, EN}

\* What a translation backend may answer for a text: a translation, or the
\* text itself.
Translations(text) == {<<"U597D">>, text}

\* Outcome of one call of an external collaborator: it raises, or returns.
Fail == [ok |-> FALSE, val |-> None]
Ok(v) == [ok |-> TRUE, val |-> v]
BackendOutcomes(text) == {Fail} \cup {Ok(t) : t \in Translations(text)}
DetectorOutcomes == {Fail, Ok(EN), Ok(ZH_CN), Ok(ZH_TW)}

----------------------------------------------------------------------------
\* Pure helpers of PDFTranslator.

\* str.strip(): drop leading and trailing whitespace.
RECURSIVE lstrip(_)
lstrip(text) ==
    IF Len(text) > 0 /\ Head(text) \in Space THEN lstrip(Tail(text)) ELSE text

RECURSIVE rstrip(_)
rstrip(text) ==
    IF Len(text) > 0 /\ text[Len(text)] \in Space
    THEN rstrip(SubSeq(text, 1, Len(text) - 1))
    ELSE text

strip(text) == rstrip(lstrip(text))

\* `not text or not text.strip()`
IsBlank(text) == Len(text) = 0 \/ Len(strip(text)) = 0

_is_chinese_all(text) == Len(text) > 0 /\ \A i \in 1..Len(text) : text[i] \in CJK

\* re.search(r'[\u4e00-\u9fff]', text)
_is_chinese(text) == \E i \in 1..Len(text) : text[i] \in CJK

_needs_translation_alnum(text) == \E i \in 1..Len(text) : text[i] \in Latin \cup Digits

\* re.search(r'[a-zA-Z]', text)
_needs_translation(text) == \E i \in 1..Len(text) : text[i] \in Latin

\* Python truthiness of an Optional[str]
Truthy(s) == s # None /\ Len(s) > 0

\* cache_key = f"{source_lang}:{text}" if source_lang else text
CacheKey(text, source_lang) ==
    IF Truthy(source_lang) THEN source_lang \o <<":">> \o text ELSE text

Put_clear(d, k, v) == [x \in {k} |-> v]

\* d[k] = v on a dict
Put(d, k, v) == [x \in DOMAIN d \cup {k} |-> IF x = k THEN v ELSE d[x]]

EmptyDict == [x \in {} |-> None]

----------------------------------------------------------------------------
\* The translator instance as one record (Python's self).
Self == [translator_service   |-> translator_service,
         auto_detect_language |-> auto_detect_language,
         api_key              |-> api_key,
         base_url             |-> base_url,
         model_name           |-> model_name,
         translation_cache    |-> translation_cache,
         language_cache       |-> language_cache]

KEY         == <<"sk-key">>
NOT_NEEDED  == <<"not-needed">>
URL         == <<"http://localhost:8080/v1">>
FREEGPT_URL == <<"https://free.v36.cm/v1/">>
Services    == {"google", "openai", "localai", "freegpt"}
OpenAIFamily == {"openai", "localai", "freegpt"}

ImportFail == [ok |-> FALSE, val |-> <<"ImportError">>]

\* PDFTranslator.__init__
NewTranslator(service, key, auto_detect, url, langdetect) ==
    [translator_service   |-> service,
     auto_detect_language |-> auto_detect /\ langdetect,
     api_key              |-> key,
     base_url             |-> IF service = "freegpt"
                              THEN (IF Truthy(url) THEN url ELSE FREEGPT_URL)
                              ELSE url,
     model_name           |-> None,
     translation_cache    |-> EmptyDict,
     language_cache       |-> EmptyDict]

\* langdetect's answer with the regional variants mapped (lines 98-103)
NormalizeDetected(detected) ==
    IF detected = ZH_CN THEN ZH
    ELSE IF detected = ZH_TW THEN ZH
    ELSE detected

LangCacheHit_never(cache, text) == FALSE

\* text in self.language_cache (line 89)
LangCacheHit(cache, text) == text \in DOMAIN cache

OnDetectError_reraise(self) ==
    [self |-> self, result |-> None, detector |-> "fail", raised |-> TRUE,
     hit |-> FALSE]

\* except LangDetectException / except Exception (lines 109-113): 'auto'.
OnDetectError(self) ==
    [self |-> self, result |-> AUTO, detector |-> "fail", raised |-> FALSE,
     hit |-> FALSE]

\* PDFTranslator.detect_language; det is what langdetect.detect does if called.
\* detector: "none" (not called), "ok", "fail"; hit: answered from the
\* language cache.
detect_language(self, text, det) ==
    IF ~USE_LANGDETECT \/ IsBlank(text)
    THEN [self |-> self, result |-> AUTO, detector |-> "none", raised |-> FALSE,
          hit |-> FALSE]
    ELSE IF LangCacheHit(self.language_cache, text)
    THEN [self |-> self, result |-> self.language_cache[text], detector |-> "none",
          raised |-> FALSE, hit |-> TRUE]
    ELSE IF _is_chinese(text)
    THEN [self |-> [self EXCEPT !.language_cache = Put(@, text, ZH)],
          result |-> ZH, detector |-> "none", raised |-> FALSE, hit |-> FALSE]
    ELSE IF det.ok
    THEN LET detected == NormalizeDetected(det.val)
         IN  [self |-> [self EXCEPT !.language_cache = Put(@, text, detected)],
              result |-> detected, detector |-> "ok", raised |-> FALSE,
              hit |-> FALSE]
    ELSE OnDetectError(self)

\* The try block of translate_text, lines 149-214: the backend dispatch.
\* be is what the backend call does if it is reached.  backend: "none" (not
\* called), "ok", "fail"; cfg_error: the ValueError for a missing API key.
Dispatch(self, text, be) ==
    IF self.translator_service = "google"
    THEN [self |-> self, ok |-> be.ok, translated |-> be.val,
          backend |-> IF be.ok THEN "ok" ELSE "fail", cfg_error |-> FALSE]
    ELSE IF self.translator_service \in OpenAIFamily
    THEN IF be = ImportFail
         THEN [self |-> self, ok |-> FALSE, translated |-> None,
               backend |-> "none", cfg_error |-> FALSE]
         ELSE IF ~Truthy(self.api_key) /\ self.translator_service # "localai"
         THEN [self |-> self, ok |-> FALSE, translated |-> None,
               backend |-> "none", cfg_error |-> TRUE]
         ELSE LET self1 == IF ~Truthy(self.api_key)
                           THEN [self EXCEPT !.api_key = NOT_NEEDED]
                           ELSE self
              IN  [self |-> self1, ok |-> be.ok, translated |-> be.val,
                   backend |-> IF be.ok THEN "ok" ELSE "fail", cfg_error |-> FALSE]
    ELSE [self |-> self, ok |-> TRUE, translated |-> text,
          backend |-> "none", cfg_error |-> FALSE]

\* A translate_text that returns without reaching the dispatch.
\* detected: the tag detect_language gave the call, None if it was not asked.
Return(self, text, result, detector, detected, hit, key) ==
    [self |-> self, text |-> text, result |-> result, raised |-> FALSE,
     backend |-> "none", detector |-> detector, detected |-> detected,
     hit |-> hit, key |-> key, wrote |-> FALSE, cfg_error |-> FALSE]

OnTranslationError_reraise(self, text, d, key) ==
    [self |-> self, text |-> text, result |-> None, raised |-> TRUE,
     backend |-> d.backend, detector |-> d.detector, detected |-> d.detected,
     hit |-> FALSE, key |-> key,
     wrote |-> FALSE, cfg_error |-> d.cfg_error]

\* except Exception (lines 224-226): print, return the original text.
\* d carries what the call did before the exception.
OnTranslationError(self, text, d, key) ==
    [self |-> self, text |-> text, result |-> text, raised |-> FALSE,
     backend |-> d.backend, detector |-> d.detector, detected |-> d.detected,
     hit |-> FALSE, key |-> key,
     wrote |-> FALSE, cfg_error |-> d.cfg_error]

CacheHit_never(cache, key) == FALSE

\* cache_key in self.translation_cache (line 135)
CacheHit(cache, key) == key \in DOMAIN cache

StoreKey_resolved(cache_key, text, lang) == CacheKey(text, lang)

\* The key of the cache write (line 217): cache_key as computed at line 134,
\* not recomputed from the source language resolved since (lang).
StoreKey(cache_key, text, lang) == cache_key

IsZh_regional(tag) == tag = ZH_CN

\* source_lang == 'zh' (line 141)
IsZh(tag) == tag = ZH

\* PDFTranslator.translate_text
translate_text(self, text, source_lang, det, be) ==
    IF IsBlank(text) THEN Return(self, text, text, "none", None, FALSE, None)
    ELSE IF _is_chinese(text) THEN Return(self, text, text, "none", None, FALSE, None)
    ELSE
    LET cache_key == CacheKey(text, source_lang) IN
    IF CacheHit(self.translation_cache, cache_key)
    THEN Return(self, text, self.translation_cache[cache_key], "none", None, TRUE,
                cache_key)
    ELSE
    LET detecting == source_lang = None /\ self.auto_detect_language
        dl   == IF detecting THEN detect_language(self, text, det)
                ELSE [self |-> self, result |-> source_lang, detector |-> "none",
                      raised |-> FALSE, hit |-> FALSE]
        lang == IF dl.result = None \/ dl.result = AUTO THEN AUTO ELSE dl.result
        detected == IF detecting THEN dl.result ELSE None
    IN
    IF dl.raised
    THEN [Return(dl.self, text, None, dl.detector, None, FALSE, cache_key)
            EXCEPT !.raised = TRUE]
    ELSE IF detecting /\ IsZh(dl.result)
    THEN Return(dl.self, text, text, dl.detector, detected, FALSE, cache_key)
    ELSE
    LET d == Dispatch(dl.self, text, be) IN
    IF d.ok
    THEN [self |-> [d.self EXCEPT !.translation_cache =
                                     Put(@, StoreKey(cache_key, text, lang), d.translated)],
          text |-> text, result |-> d.translated, raised |-> FALSE,
          backend |-> d.backend, detector |-> dl.detector, detected |-> detected,
          hit |-> FALSE, key |-> cache_key, wrote |-> TRUE, cfg_error |-> FALSE]
    ELSE OnTranslationError(d.self, text,
            [backend |-> d.backend, detector |-> dl.detector, detected |-> detected,
             cfg_error |-> d.cfg_error],
            cache_key)

----------------------------------------------------------------------------
\* The page: PyMuPDF's redaction and text insertion, by what they do to the
\* text readable at a bounding box.  A bbox is named by the index of its span;
\* the bounding boxes of a page are taken to be disjoint.
Blank == << >>

Redact_keep(content, bbox) == content

\* page.add_redact_annot(rect); page.apply_redactions()
Redact(content, bbox) == [content EXCEPT ![bbox] = Blank]

\* page.insert_text(point, new_text, ...)
InsertText(content, bbox, new_text) == [content EXCEPT ![bbox] = @ \o new_text]

\* A span colour: PyMuPDF gives an sRGB integer; a block may also carry an
\* (r, g, b) triple.  A channel of a triple is the fraction num/den.
Frac(n, d) == [num |-> n, den |-> d]
BLACK == <<Frac(0, 1), Frac(0, 1), Frac(0, 1)>>
NoColor == << >>
IntColor(c) == [kind |-> "int", int |-> c, rgb |-> NoColor]
TripleColor(t) == [kind |-> "triple", int |-> 0, rgb |-> t]

ColorToRGB_bgr(color) ==
    IF color.kind = "int" /\ color.int = 0 THEN BLACK
    ELSE IF color.kind = "int"
    THEN <<Frac(color.int % 256, 255),
           Frac((color.int \div 256) % 256, 255),
           Frac((color.int \div 65536) % 256, 255)>>
    ELSE color.rgb

\* "Determine text color", lines 375-384: x >> k is x \div 2^k, x & 0xFF is
\* x % 256, and c / 255.0 is kept as the fraction c/255.
ColorToRGB(color) ==
    IF color.kind = "int" /\ color.int = 0 THEN BLACK
    ELSE IF color.kind = "int"
    THEN <<Frac((color.int \div 65536) % 256, 255),
           Frac((color.int \div 256) % 256, 255),
           Frac(color.int % 256, 255)>>
    ELSE color.rgb

\* span.get("color", 0) of a span without a colour (line 254)
DefaultColor == IntColor(0)

\* Spans a page may hold.
SpanTexts == {T_hi_sp, T_num, T_mix, T_sp}
SpanSeqs == UNION {[1..n -> SpanTexts] : n \in 0..MaxFrags}

\* PDFTranslator.extract_text_blocks: one block per span whose stripped text
\* is not empty, in order.
\* colors[i] is the colour of span i.
extract_text_blocks(raw, colors) ==
    LET idx == [i \in 1..Len(raw) |-> i]
        keep(i) == Len(strip(raw[i])) > 0
        sel == SelectSeq(idx, keep)
    IN  [j \in 1..Len(sel) |-> [text |-> strip(raw[sel[j]]), bbox |-> sel[j],
                                color |-> colors[sel[j]]]]

\* Outcomes of the page's capabilities during one _replace_text_in_page:
\* the redaction, the insertion, and the redaction of the fallback.
LibOutcomes == [redact : BOOLEAN, insert : BOOLEAN, fallback : BOOLEAN]

ReplaceTry_insert_first(content, block, new_text, lib) ==
    LET color == ColorToRGB(block.color) IN
    IF ~lib.insert THEN [ok |-> FALSE, content |-> content, color |-> color]
    ELSE IF ~lib.redact
    THEN [ok |-> FALSE, content |-> InsertText(content, block.bbox, new_text),
          color |-> color]
    ELSE [ok |-> TRUE,
          content |-> Redact(InsertText(content, block.bbox, new_text), block.bbox),
          color |-> color]

\* The try block of _replace_text_in_page, lines 333-394.
\* color is the colour handed to insert_text, if the try block gets there.
ReplaceTry(content, block, new_text, lib) ==
    IF ~lib.redact THEN [ok |-> FALSE, content |-> content, color |-> NoColor]
    ELSE LET erased == Redact(content, block.bbox)
             color == ColorToRGB(block.color)
         IN
         IF ~lib.insert THEN [ok |-> FALSE, content |-> erased, color |-> color]
         ELSE [ok |-> TRUE, content |-> InsertText(erased, block.bbox, new_text),
               color |-> color]

\* What one replace did, for the record of the block.
NoReplace == [redact |-> "none", insert |-> "none", fallback |-> "none",
              color |-> NoColor]
OkFail(b) == IF b THEN "ok" ELSE "fail"

_replace_text_in_page_raise(content, block, new_text, lib) ==
    LET t == ReplaceTry(content, block, new_text, lib) IN
    IF t.ok
    THEN [content |-> t.content, raised |-> FALSE,
          did |-> [redact |-> "ok", insert |-> "ok", fallback |-> "none",
                   color |-> t.color]]
    ELSE [content |-> IF lib.fallback THEN Redact(t.content, block.bbox) ELSE t.content,
          raised |-> ~lib.fallback,
          did |-> [redact |-> OkFail(lib.redact),
                   insert |-> IF lib.redact THEN "fail" ELSE "none",
                   fallback |-> OkFail(lib.fallback),
                   color |-> IF lib.redact THEN t.color ELSE NoColor]]

\* PDFTranslator._replace_text_in_page; never raises (lines 396-403).
_replace_text_in_page(content, block, new_text, lib) ==
    LET t == ReplaceTry(content, block, new_text, lib) IN
    IF t.ok
    THEN [content |-> t.content, raised |-> FALSE,
          did |-> [redact |-> "ok", insert |-> "ok", fallback |-> "none",
                   color |-> t.color]]
    ELSE [content |-> IF lib.fallback THEN Redact(t.content, block.bbox) ELSE t.content,
          raised |-> FALSE,
          did |-> [redact |-> OkFail(lib.redact),
                   insert |-> IF lib.redact THEN "fail" ELSE "none",
                   fallback |-> OkFail(lib.fallback),
                   color |-> IF lib.redact THEN t.color ELSE NoColor]]

\* A block the driver passes over (continue, lines 289-290 and 296-297).
\* detected: what detect_language returned for the block, None if not asked.
Skipped(self, block, why, detector, detected) ==
    [self |-> self, raised |-> FALSE, skipped |-> why, detector |-> detector,
     detected |-> detected, translate |-> FALSE, lang |-> None, key |-> None,
     translated |-> block.text, backend |-> "none"]

\* The body of the block loop up to the translation: translate_pdf lines
\* 286-300, and the same lines 120-134 of _translate_with_progress.
TranslateBlock(self, block, det, be) ==
    LET original_text == block.text IN
    IF _is_chinese(original_text) \/ ~_needs_translation(original_text)
    THEN Skipped(self, block, "filter", "none", None)
    ELSE
    LET dl == IF self.auto_detect_language
              THEN detect_language(self, original_text, det)
              ELSE [self |-> self, result |-> None, detector |-> "none",
                    raised |-> FALSE, hit |-> FALSE]
        detected_lang == dl.result
    IN
    IF dl.raised
    THEN [Skipped(dl.self, block, "error", dl.detector, None) EXCEPT !.raised = TRUE]
    ELSE IF self.auto_detect_language /\ detected_lang = ZH
    THEN Skipped(dl.self, block, "zh", dl.detector, detected_lang)
    ELSE
    LET tr == translate_text(dl.self, original_text, detected_lang, det, be)
    IN  [self |-> tr.self, raised |-> tr.raised, skipped |-> "no",
         detector |-> dl.detector, detected |-> detected_lang,
         translate |-> TRUE, lang |-> detected_lang, key |-> tr.key,
         translated |-> tr.result, backend |-> tr.backend]

NeedsReplace_always(t, block) == t.translate /\ ~t.raised

\* if translated_text != original_text (lines 302-304, gui.py 136-138)
NeedsReplace(t, block) == t.translate /\ ~t.raised /\ t.translated # block.text

\* The whole body of the block loop: t is what TranslateBlock did.
ProcessBlock(content, block, t, lib) ==
    LET doReplace == NeedsReplace(t, block)
        rp == IF doReplace
              THEN _replace_text_in_page(content, block, t.translated, lib)
              ELSE [content |-> content, raised |-> FALSE, did |-> NoReplace]
    IN  [self |-> t.self, content |-> rp.content,
         raised |-> t.raised \/ rp.raised,
         ev |-> [kind |-> "block", text |-> block.text, bbox |-> block.bbox,
                 skipped |-> t.skipped, detector |-> t.detector,
                 detected |-> t.detected, key |-> t.key,
                 translate |-> t.translate, lang |-> t.lang,
                 translated |-> t.translated, backend |-> t.backend,
                 replace |-> doReplace, did |-> rp.did]]

\* if self._cancelled: ... return   (gui.py lines 103-105)
PageCancelCheck(cancelled) == cancelled

BlockCancelCheck_ignore(cancelled) == FALSE

\* if self._cancelled: return       (gui.py lines 117-118)
BlockCancelCheck(cancelled) == cancelled

\* if not self._cancelled: save     (gui.py line 144)
SaveCancelCheck(cancelled) == cancelled

----------------------------------------------------------------------------
\* State after construction of a translator (PDFTranslator.__init__ called
\* by main() or by start_translation).
InitTranslator ==
    /\ USE_LANGDETECT \in BOOLEAN
    /\ \E service \in Services, key \in {None, KEY}, auto_detect \in BOOLEAN :
          LET url == IF service = "localai" THEN URL ELSE None
              t == NewTranslator(service, key, auto_detect, url, USE_LANGDETECT) IN
          /\ translator_service = t.translator_service
          /\ auto_detect_language = t.auto_detect_language
          /\ api_key = t.api_key
          /\ base_url = t.base_url
          /\ model_name = t.model_name
          /\ translation_cache = t.translation_cache
          /\ language_cache = t.language_cache

NoEv == [kind |-> "none"]

InitDriverIdle(m) ==
    /\ mode = m
    /\ pc = "start"
    /\ input_exists \in (IF m = "api" THEN {TRUE} ELSE BOOLEAN)
    /\ total_pages = 0
    /\ page_num = 0
    /\ page = << >>
    /\ text_blocks = << >>
    /\ block_idx = 0
    /\ doc_open = FALSE
    /\ saved = FALSE
    /\ save_invoked = 0
    /\ _cancelled = FALSE
    /\ signals = << >>
    /\ raised = FALSE
    /\ ev = NoEv
    /\ observed_cancel = FALSE
    /\ modified = FALSE
    /\ backend_calls = "none"
    /\ io_failed = FALSE

SetSelf(self) ==
    /\ api_key' = self.api_key
    /\ translation_cache' = self.translation_cache
    /\ language_cache' = self.language_cache
    /\ UNCHANGED <<translator_service, auto_detect_language, base_url, model_name,
                   USE_LANGDETECT>>

----------------------------------------------------------------------------
\* Direct calls of the translator's methods on one instance.

Init ==
    /\ InitTranslator
    /\ calls = << >>
    /\ InitDriverIdle("api")

CallRecord(op, text, source_lang, r) ==
    [op |-> op, text |-> text, lang |-> source_lang, result |-> r.result,
     raised |-> r.raised, backend |-> r.backend, detector |-> r.detector,
     detected |-> r.detected, hit |-> r.hit, key |-> r.key, wrote |-> r.wrote, cfg_error |-> r.cfg_error,
     no_key |-> ~Truthy(api_key)]

\* translator.translate_text(text, source_lang)
TranslateText ==
    /\ Len(calls) < MaxCalls
    /\ \E text \in Texts, source_lang \in Langs :
       \E r \in {translate_text(Self, text, source_lang, det, be) :
                   det \in DetectorOutcomes,
                   be \in BackendOutcomes(text) \cup {ImportFail}} :
          /\ SetSelf(r.self)
          /\ calls' = Append(calls, CallRecord("translate", text, source_lang, r))
    /\ UNCHANGED driver_vars

\* translator.detect_language(text)
DetectLanguage ==
    /\ Len(calls) < MaxCalls
    /\ \E text \in Texts :
       \E d \in {detect_language(Self, text, det) : det \in DetectorOutcomes} :
          /\ SetSelf(d.self)
          /\ calls' = Append(calls, CallRecord("detect", text, None,
                 [result |-> d.result, raised |-> d.raised, backend |-> "none",
                  detector |-> d.detector, detected |-> d.result, hit |-> d.hit,
                  key |-> None,
                  wrote |-> FALSE, cfg_error |-> FALSE]))
    /\ UNCHANGED driver_vars

Next == TranslateText \/ DetectLanguage

Spec == Init /\ [][Next]_vars

----------------------------------------------------------------------------
\* One pass of the document driver: PDFTranslator.translate_pdf (mode "cli")
\* or TranslationWorker.run with _translate_with_progress (mode "gui").

\* The pass starts from a translator built without an API key.  With
\* auto-detection off the driver never calls detect_language, so the module
\* flag is taken as set.
DriverServices == {"google", "localai", "freegpt"}

InitDriver ==
    /\ USE_LANGDETECT = TRUE
    /\ \E service \in DriverServices, auto_detect \in BOOLEAN :
          LET url == IF service = "localai" THEN URL ELSE None
              t == NewTranslator(service, None, auto_detect, url, USE_LANGDETECT) IN
          /\ translator_service = t.translator_service
          /\ auto_detect_language = t.auto_detect_language
          /\ api_key = t.api_key
          /\ base_url = t.base_url
          /\ model_name = t.model_name
          /\ translation_cache = t.translation_cache
          /\ language_cache = t.language_cache
    /\ calls = << >>
    /\ \E m \in {"cli", "gui"} : InitDriverIdle(m)

page_vars == <<page_num, page, text_blocks, block_idx, ev, modified, backend_calls>>

Propagate_swallow ==
    /\ pc' = "done"
    /\ raised' = FALSE
    /\ doc_open' = FALSE
    /\ signals' = IF mode = "gui" THEN Append(signals, "finished") ELSE signals

\* An exception leaves the driver: translate_pdf raises to its caller; in the
\* worker the finally clause closes the document (line 151) and run() emits
\* error_occurred (lines 88-89).
Propagate ==
    /\ pc' = "done"
    /\ IF mode = "gui"
       THEN /\ signals' = Append(signals, "error_occurred")
            /\ doc_open' = FALSE
            /\ raised' = FALSE
       ELSE /\ raised' = TRUE
            /\ UNCHANGED <<signals, doc_open>>

\* translate_pdf lines 269-275.
CliOpen ==
    /\ mode = "cli" /\ pc = "start"
    /\ IF ~input_exists
       THEN /\ pc' = "done" /\ raised' = TRUE
            /\ UNCHANGED <<total_pages, doc_open, io_failed>>
       ELSE \E opened \in BOOLEAN :
            IF opened
            THEN /\ \E n \in 1..MaxPages : total_pages' = n
                 /\ doc_open' = TRUE /\ pc' = "page"
                 /\ UNCHANGED <<raised, io_failed>>
            ELSE /\ pc' = "done" /\ raised' = TRUE /\ io_failed' = TRUE
                 /\ UNCHANGED <<total_pages, doc_open>>
    /\ UNCHANGED <<translator_vars, calls, mode, input_exists, saved, save_invoked,
                   _cancelled, signals, observed_cancel, page_vars>>

\* TranslationWorker.run lines 54-61: the page count, from a first open.
WorkerRunStart ==
    /\ mode = "gui" /\ pc = "start"
    /\ IF ~input_exists
       THEN /\ pc' = "done" /\ signals' = Append(signals, "error_occurred")
            /\ UNCHANGED <<total_pages, io_failed>>
       ELSE \E opened \in BOOLEAN :
            IF opened
            THEN /\ \E n \in 1..MaxPages : total_pages' = n
                 /\ pc' = "twp_open"
                 /\ UNCHANGED <<signals, io_failed>>
            ELSE /\ pc' = "done" /\ signals' = Append(signals, "error_occurred")
                 /\ io_failed' = TRUE
                 /\ UNCHANGED total_pages
    /\ UNCHANGED <<translator_vars, calls, mode, input_exists, saved, save_invoked,
                   _cancelled, doc_open, raised, observed_cancel, page_vars>>

\* _translate_with_progress lines 95-99.
WorkerOpen ==
    /\ mode = "gui" /\ pc = "twp_open"
    /\ \E opened \in BOOLEAN :
       IF opened
       THEN /\ doc_open' = TRUE /\ pc' = "page"
            /\ UNCHANGED <<signals, io_failed>>
       ELSE /\ pc' = "done" /\ signals' = Append(signals, "error_occurred")
            /\ io_failed' = TRUE
            /\ UNCHANGED doc_open
    /\ UNCHANGED <<translator_vars, calls, mode, input_exists, total_pages, saved,
                   save_invoked, _cancelled, raised, observed_cancel, page_vars>>

\* The worker returns from _translate_with_progress on a cancellation check.
ReturnCancelled ==
    /\ doc_open' = FALSE
    /\ pc' = "after_twp"

\* Head of the page loop with a page left: the cancellation check of the
\* worker, then doc[page_num] and extract_text_blocks.
PageStart ==
    /\ pc = "page" /\ page_num < total_pages
    /\ observed_cancel' = (observed_cancel \/ (mode = "gui" /\ _cancelled))
    /\ IF mode = "gui" /\ PageCancelCheck(_cancelled)
       THEN /\ ReturnCancelled
            /\ UNCHANGED page_vars
       ELSE /\ \E raw \in SpanSeqs :
               /\ page' = raw
               /\ text_blocks' = extract_text_blocks(raw,
                                     [i \in 1..Len(raw) |-> DefaultColor])
            /\ block_idx' = 0
            /\ ev' = [kind |-> "page"]
            /\ pc' = "block"
            /\ UNCHANGED page_num
            /\ UNCHANGED <<doc_open, modified, backend_calls>>
    /\ UNCHANGED <<translator_vars, calls, mode, input_exists, total_pages, saved,
                   save_invoked, _cancelled, signals, raised, io_failed>>

\* One iteration of the block loop.
BlockStep ==
    /\ pc = "block" /\ block_idx < Len(text_blocks)
    /\ observed_cancel' = (observed_cancel \/ (mode = "gui" /\ _cancelled))
    /\ IF mode = "gui" /\ BlockCancelCheck(_cancelled)
       THEN /\ ReturnCancelled
            /\ UNCHANGED <<translator_vars, page_vars, signals, raised>>
       ELSE LET block == text_blocks[block_idx + 1] IN
            \E t \in {TranslateBlock(Self, block, det, be) :
                        det \in DetectorOutcomes,
                        be \in BackendOutcomes(block.text) \cup {ImportFail}} :
            \E lib \in (IF NeedsReplace(t, block) THEN LibOutcomes
                        ELSE {[redact |-> TRUE, insert |-> TRUE, fallback |-> TRUE]}) :
               LET r == ProcessBlock(page, block, t, lib) IN
               /\ SetSelf(r.self)
               /\ page' = r.content
               /\ ev' = r.ev
               /\ modified' = (modified \/ r.content # page)
               /\ backend_calls' = IF backend_calls = "ok" \/ r.ev.backend = "none"
                                   THEN backend_calls
                                   ELSE r.ev.backend
               /\ block_idx' = block_idx + 1
               /\ UNCHANGED <<text_blocks, page_num>>
               /\ IF r.raised
                  THEN Propagate
                  ELSE UNCHANGED <<pc, signals, raised, doc_open>>
    /\ UNCHANGED <<calls, mode, input_exists, total_pages, saved, save_invoked,
                   _cancelled, io_failed>>

EndPage_early ==
    /\ pc = "block"
    /\ page_num' = page_num + 1
    /\ pc' = "page"
    /\ page' = << >>
    /\ text_blocks' = << >>
    /\ block_idx' = 0
    /\ ev' = NoEv
    /\ UNCHANGED <<translator_vars, calls, mode, input_exists, total_pages, saved,
                   save_invoked, _cancelled, signals, raised, doc_open,
                   observed_cancel, modified, backend_calls, io_failed>>

\* The block loop is exhausted: _translate_image_text (a no-op, lines 405-409)
\* if asked for, and the page loop goes on; the page is let go.
EndPage ==
    /\ pc = "block" /\ block_idx = Len(text_blocks)
    /\ page_num' = page_num + 1
    /\ pc' = "page"
    /\ page' = << >>
    /\ text_blocks' = << >>
    /\ block_idx' = 0
    /\ ev' = NoEv
    /\ UNCHANGED <<translator_vars, calls, mode, input_exists, total_pages, saved,
                   save_invoked, _cancelled, signals, raised, doc_open,
                   observed_cancel, modified, backend_calls, io_failed>>

\* After the page loop: doc.save and doc.close (translate_pdf lines 310-313;
\* _translate_with_progress lines 144-151).
Save ==
    /\ pc = "page" /\ page_num = total_pages
    /\ observed_cancel' = (observed_cancel \/ (mode = "gui" /\ _cancelled))
    /\ IF mode = "gui" /\ SaveCancelCheck(_cancelled)
       THEN /\ ReturnCancelled
            /\ UNCHANGED <<saved, save_invoked, signals, raised, io_failed>>
       ELSE /\ save_invoked' = save_invoked + 1
            /\ \E written \in BOOLEAN :
               IF written
               THEN /\ saved' = TRUE
                    /\ doc_open' = FALSE
                    /\ pc' = IF mode = "gui" THEN "after_twp" ELSE "done"
                    /\ UNCHANGED <<signals, raised, io_failed>>
               ELSE /\ io_failed' = TRUE
                    /\ Propagate
                    /\ UNCHANGED saved
    /\ UNCHANGED <<translator_vars, calls, mode, input_exists, total_pages,
                   _cancelled, page_vars>>

\* TranslationWorker.run lines 80-83.
WorkerFinish ==
    /\ mode = "gui" /\ pc = "after_twp"
    /\ pc' = "done"
    /\ signals' = IF ~_cancelled THEN Append(signals, "finished") ELSE signals
    /\ UNCHANGED <<translator_vars, calls, mode, input_exists, total_pages, saved,
                   save_invoked, _cancelled, doc_open, raised, observed_cancel,
                   io_failed, page_vars>>

\* TranslationWorker.cancel, called by cancel_translation while the worker
\* thread is running.
Cancel ==
    /\ mode = "gui" /\ pc # "done" /\ ~_cancelled
    /\ _cancelled' = TRUE
    /\ UNCHANGED <<translator_vars, calls, mode, pc, input_exists, total_pages, saved,
                   save_invoked, signals, doc_open, raised, observed_cancel,
                   io_failed, page_vars>>

\* The front end of a started worker: start_translation disables the
\* translate button and enables the cancel button (gui.py 490-491); the slots
\* of finished and error_occurred, on_translation_finished and
\* on_translation_error, are the only code that turns them back.
Notified ==
    \E i \in 1..Len(signals) : signals[i] \in {"finished", "error_occurred"}
translate_btn_enabled == Notified
cancel_btn_enabled == ~Notified

NextDriver ==
    \/ CliOpen
    \/ WorkerRunStart
    \/ WorkerOpen
    \/ PageStart
    \/ BlockStep
    \/ EndPage
    \/ Save
    \/ WorkerFinish
    \/ Cancel

SpecDriver == InitDriver /\ [][NextDriver]_vars

----------------------------------------------------------------------------
\* Direct calls of _replace_text_in_page on the blocks of one extracted page
\* whose spans carry colours (mode "replace").

\* Channel values, the sRGB integers made of them, one integer wider than 24
\* bits, and two triples.
Channels == {0, 120, 212, 255}
BlockColors ==
    {IntColor(65536 * r + 256 * g + b) : r \in Channels, g \in Channels, b \in Channels}
        \cup {IntColor(16777216 + 30932)}
        \cup {TripleColor(BLACK),
              TripleColor(<<Frac(1, 1), Frac(1, 2), Frac(0, 1)>>)}

InitReplace ==
    /\ USE_LANGDETECT = TRUE
    /\ LET t == NewTranslator("google", None, TRUE, None, USE_LANGDETECT) IN
          /\ translator_service = t.translator_service
          /\ auto_detect_language = t.auto_detect_language
          /\ api_key = t.api_key
          /\ base_url = t.base_url
          /\ model_name = t.model_name
          /\ translation_cache = t.translation_cache
          /\ language_cache = t.language_cache
    /\ calls = << >>
    /\ mode = "replace"
    /\ pc = "block"
    /\ input_exists = TRUE
    /\ total_pages = 1
    /\ page_num = 0
    /\ \E text \in SpanTexts, color \in BlockColors :
          /\ page = <<text>>
          /\ text_blocks = extract_text_blocks(<<text>>, <<color>>)
    /\ block_idx = 0
    /\ doc_open = TRUE
    /\ saved = FALSE
    /\ save_invoked = 0
    /\ _cancelled = FALSE
    /\ signals = << >>
    /\ raised = FALSE
    /\ ev = NoEv
    /\ observed_cancel = FALSE
    /\ modified = FALSE
    /\ backend_calls = "none"
    /\ io_failed = FALSE

\* self._replace_text_in_page(page, block, new_text) on the next block.
ReplaceBlock ==
    /\ mode = "replace" /\ pc = "block" /\ block_idx < Len(text_blocks)
    /\ LET block == text_blocks[block_idx + 1] IN
       \E new_text \in Translations(block.text) \ {block.text} :
       \E r \in {_replace_text_in_page(page, block, new_text, lib) :
                   lib \in LibOutcomes} :
          /\ page' = r.content
          /\ raised' = r.raised
          /\ modified' = (r.content # page)
          /\ ev' = [kind |-> "replace", text |-> block.text, bbox |-> block.bbox,
                    color |-> block.color, new_text |-> new_text, did |-> r.did]
    /\ block_idx' = block_idx + 1
    /\ UNCHANGED <<translator_vars, calls, mode, pc, input_exists, total_pages,
                   page_num, text_blocks, doc_open, saved, save_invoked, _cancelled,
                   signals, observed_cancel, backend_calls, io_failed>>

NextReplace == ReplaceBlock

SpecReplace == InitReplace /\ [][NextReplace]_vars

----------------------------------------------------------------------------
\* Properties of the translation gateway, over the direct calls (Spec).

Calls == 1..Len(calls)
IsTranslate(i) == calls[i].op = "translate"
SamePair(i, j) == calls[i].lang = calls[j].lang /\ calls[i].text = calls[j].text

\* isTargetScript of the specification: some code point in U+4E00..U+9FFF.
IsTargetScript(text) == \E i \in 1..Len(text) : text[i] \in CJK

\* C1: whenever the backend call of a translate_text fails, translate_text
\* does not raise and returns exactly the text it was given.
C1_BackendFailureReturnsOriginal ==
    \A i \in Calls :
        (IsTranslate(i) /\ calls[i].backend = "fail")
            => (~calls[i].raised /\ calls[i].result = calls[i].text)

C1_Witness ==
    \E i \in Calls :
        IsTranslate(i) /\ calls[i].backend = "fail" /\ calls[i].text = T_hi

\* C2 as claimed: of two translate_text calls with the same (source language,
\* text), the first of which reached the backend, the second returns the value
\* of the first without invoking the backend, and the backend was invoked
\* exactly once for the pair.
C2_Original ==
    \A i \in Calls : \A j \in Calls :
        (i < j /\ IsTranslate(i) /\ IsTranslate(j) /\ SamePair(i, j)
              /\ calls[i].backend # "none"
              /\ \A h \in 1..(i - 1) : ~(IsTranslate(h) /\ SamePair(h, i)))
            => /\ calls[j].result = calls[i].result
               /\ calls[j].backend = "none"
               /\ Cardinality({k \in Calls : IsTranslate(k) /\ SamePair(k, i)
                                             /\ calls[k].backend # "none"}) = 1

\* C2 amended: once a translate_text call with (source language, text) has
\* invoked the backend and the backend has succeeded, every later call with
\* the same pair returns the identical value without invoking the backend.
C2_IdempotentAfterSuccess ==
    \A i \in Calls : \A j \in Calls :
        (i < j /\ IsTranslate(i) /\ IsTranslate(j) /\ SamePair(i, j)
              /\ calls[i].backend = "ok")
            => (calls[j].result = calls[i].result /\ calls[j].backend = "none"
                /\ ~calls[j].raised)

C2_Witness ==
    \E i \in Calls : \E j \in Calls :
        /\ i < j /\ IsTranslate(i) /\ IsTranslate(j) /\ SamePair(i, j)
        /\ calls[i].backend = "ok" /\ calls[i].result # calls[i].text
        /\ calls[j].result = calls[i].result

\* C3 as claimed: a translate_text call that is answered from the cache is
\* given a value that was stored by a call with the same (source language,
\* text) pair.
C3_CacheKeyedByPair ==
    \A i \in Calls : \A j \in Calls :
        (i < j /\ IsTranslate(i) /\ IsTranslate(j)
              /\ calls[i].wrote /\ calls[j].hit /\ calls[i].key = calls[j].key)
            => SamePair(i, j)

\* C4: a key of the translation cache is never removed and its value never
\* changes.
C4_CacheMemoized ==
    [][\A k \in DOMAIN translation_cache :
          /\ k \in DOMAIN translation_cache'
          /\ translation_cache'[k] = translation_cache[k]]_vars

C4_Witness ==
    \E i \in Calls : \E j \in Calls :
        /\ i < j /\ calls[i].wrote /\ IsTranslate(j)
        /\ Cardinality(DOMAIN translation_cache) = 2

\* C5: a translate_text call on a text in the target script returns the text,
\* invokes neither langdetect nor the backend, and leaves the translation
\* cache as it was.
C5_TargetScriptIsNoOp ==
    [][(Len(calls') = Len(calls) + 1
          /\ calls'[Len(calls')].op = "translate"
          /\ IsTargetScript(calls'[Len(calls')].text))
        => LET c == calls'[Len(calls')] IN
           /\ c.result = c.text
           /\ ~c.raised
           /\ c.detector = "none"
           /\ c.backend = "none"
           /\ translation_cache' = translation_cache]_vars

C5_Witness ==
    \E i \in Calls :
        IsTranslate(i) /\ calls[i].text = T_mix /\ calls[i].result = T_mix

\* C6 as claimed: with the openai or freegpt service and no API key, a
\* translate_text call that reaches the API-key check fails (raises) instead
\* of returning.
C6_MissingKeyIsFatal ==
    \A i \in Calls :
        (IsTranslate(i) /\ translator_service \in {"openai", "freegpt"}
              /\ calls[i].no_key /\ calls[i].cfg_error)
            => calls[i].raised

----------------------------------------------------------------------------
\* Properties of the document driver (SpecDriver).

OnlyDigitsPunct(text) ==
    Len(text) > 0 /\ \A i \in 1..Len(text) : text[i] \in Digits \cup Punct

\* C7: once a cancellation check of the worker has read the flag set, no page
\* is extracted, no block is classified, translated or rewritten, and save is
\* never invoked; this holds from the very step of the check on.
C7_CancelledIsAbsorbing ==
    /\ [](observed_cancel => (save_invoked = 0 /\ ~saved))
    /\ [][observed_cancel' =>
            /\ UNCHANGED <<page_num, page, text_blocks, block_idx, ev, modified,
                           backend_calls>>
            /\ UNCHANGED <<translation_cache, language_cache, api_key>>
            /\ UNCHANGED <<saved, save_invoked>>]_vars

\* The flag is set after page 1 of a 3-page document: the pass ends with
\* pages 2 and 3 not processed and nothing saved.
C7_Witness ==
    /\ mode = "gui" /\ pc = "done" /\ observed_cancel
    /\ total_pages = 3 /\ page_num = 1 /\ ~saved

\* C8: for a block whose text has only digits and punctuation,
\* _needs_translation is false and the driver calls neither detect_language
\* nor translate_text nor _replace_text_in_page; the page keeps the text.
C8_DigitsPunctUntouched ==
    (ev.kind = "block" /\ OnlyDigitsPunct(ev.text))
        => /\ ~_needs_translation(ev.text)
           /\ ev.detector = "none"
           /\ ~ev.translate
           /\ ev.backend = "none"
           /\ ~ev.replace
           /\ strip(page[ev.bbox]) = ev.text

C8_Witness ==
    ev.kind = "block" /\ ev.text = T_num /\ ev.skipped = "filter"

\* An error has left the driver: translate_pdf has raised, or the worker has
\* reported one.
ErrorEscaped == raised \/ \E i \in 1..Len(signals) : signals[i] = "error_occurred"

\* C9: as long as no backend call of the pass has succeeded, no region of any
\* page is erased or rewritten and no error leaves the driver other than a
\* failure to open or save the document; a pass that ends without such a
\* failure and without a cancellation has saved the document.
C9_BackendDownStillSaves ==
    backend_calls # "ok"
        => /\ ~modified
           /\ ErrorEscaped => (io_failed \/ ~input_exists)
           /\ (pc = "done" /\ input_exists /\ ~io_failed /\ ~observed_cancel)
                 => (saved /\ save_invoked = 1 /\ ~raised)

C9_Witness ==
    /\ pc = "done" /\ backend_calls = "fail"
    /\ saved /\ ~modified /\ ~raised

ReplaceFailed(e) ==
    e.kind = "block" /\ e.replace
        /\ (e.did.redact = "fail" \/ e.did.insert = "fail" \/ e.did.fallback = "fail")

\* C11: a _replace_text_in_page in which the redaction, the insertion or the
\* fallback redaction fails raises nothing: the step that made the call emits
\* no error, keeps the document open and leaves the driver in the block loop
\* of the same page with the next block due.
C11_ReplaceNeverPropagates ==
    [][(block_idx' = block_idx + 1 /\ ReplaceFailed(ev'))
        => /\ pc' = "block"
           /\ ~raised'
           /\ signals' = signals
           /\ doc_open' = doc_open
           /\ text_blocks' = text_blocks
           /\ page_num' = page_num]_vars

\* Redaction and fallback both fail on the first of two blocks; the driver is
\* in the loop with the second block due.
C11_Witness ==
    /\ pc = "block" /\ block_idx = 1 /\ Len(text_blocks) = 2
    /\ ReplaceFailed(ev) /\ ev.did.redact = "fail" /\ ev.did.fallback = "fail"
    /\ ~ErrorEscaped

----------------------------------------------------------------------------
\* Properties of _replace_text_in_page on coloured blocks (SpecReplace).

\* C13: the colour handed to insert_text is black (0, 0, 0) for the block
\* colour 0; for any other integer c it is (r/255, g/255, b/255) with r, g, b
\* in 0..255 the bits 16-23, 8-15 and 0-7 of c, that is r*2^16 + g*2^8 + b is
\* c modulo 2^24; 0x0078D4 gives (0, 0x78, 0xD4) over 255; a block colour that
\* is a triple is handed over as it is.
C13_ColorMapping ==
    (ev.kind = "replace" /\ ev.did.redact = "ok")
        => LET c == ev.color
               rgb == ev.did.color
           IN  /\ c = IntColor(0) => rgb = BLACK
               /\ (c.kind = "int" /\ c.int # 0)
                     => /\ \A i \in 1..3 : rgb[i].den = 255 /\ rgb[i].num \in 0..255
                        /\ 65536 * rgb[1].num + 256 * rgb[2].num + rgb[3].num
                              = c.int % 16777216
               /\ c = IntColor(30932)
                     => rgb = <<Frac(0, 255), Frac(120, 255), Frac(212, 255)>>
               /\ c.kind = "triple" => rgb = c.rgb

C13_Witness ==
    /\ ev.kind = "replace" /\ ev.color = IntColor(30932)
    /\ ev.did.insert = "ok"
    /\ ev.did.color = <<Frac(0, 255), Frac(120, 255), Frac(212, 255)>>

----------------------------------------------------------------------------
\* Properties of the language classifier, over the direct calls (Spec).

IsDetect(i) == calls[i].op = "detect"

\* C14: a detect_language call never raises; it returns 'auto' for an empty
\* or whitespace-only text, and whenever langdetect could not be imported or
\* its detect raises.
C14_DetectNeverRaises ==
    \A i \in Calls :
        IsDetect(i)
            => /\ ~calls[i].raised
               /\ IsBlank(calls[i].text) => calls[i].result = AUTO
               /\ calls[i].detector = "fail" => calls[i].result = AUTO
               /\ ~USE_LANGDETECT => calls[i].result = AUTO

\* One call on a whitespace-only text, one in which langdetect raises.
C14_Witness ==
    \E i \in Calls : \E j \in Calls :
        /\ IsDetect(i) /\ calls[i].text = T_sp /\ calls[i].result = AUTO
        /\ IsDetect(j) /\ calls[j].text = T_hi /\ calls[j].detector = "fail"
        /\ calls[j].result = AUTO

Regional == {ZH_CN, ZH_TW}

\* C15 as claimed: a detect_language call that is not answered from the
\* language cache returns 'zh' for a text in the target script, without
\* calling langdetect; for any other text that is not blank it calls
\* langdetect, if langdetect is there; and neither a result nor a value of the
\* language cache is ever 'zh-cn' or 'zh-tw'.
C15_TargetScriptIsZh ==
    /\ \A i \in Calls :
          (IsDetect(i) /\ ~calls[i].hit)
              => /\ IsTargetScript(calls[i].text)
                       => (calls[i].result = ZH /\ calls[i].detector = "none")
                 /\ (~IsTargetScript(calls[i].text) /\ ~IsBlank(calls[i].text)
                         /\ USE_LANGDETECT)
                       => calls[i].detector # "none"
                 /\ calls[i].result \notin Regional
    /\ \A k \in DOMAIN language_cache : language_cache[k] \notin Regional

SameText(i, j) == calls[i].text = calls[j].text

\* C16 as claimed: of two detect_language calls with exactly the same text,
\* the later returns the tag of the earlier without calling langdetect.
C16_Original ==
    \A i \in Calls : \A j \in Calls :
        (i < j /\ IsDetect(i) /\ IsDetect(j) /\ SameText(i, j))
            => (calls[j].result = calls[i].result /\ calls[j].detector = "none")

\* The call classified its text: langdetect is there, the text is not blank
\* and langdetect did not raise.
Classified(i) ==
    IsDetect(i) /\ USE_LANGDETECT /\ ~IsBlank(calls[i].text)
        /\ calls[i].detector # "fail"

\* C16 amended: once a detect_language call has classified a text, every later
\* call with exactly that text returns the same tag from the language cache
\* without calling langdetect; an entry of the language cache is never removed
\* or changed; and a call is answered from the cache only if an earlier call
\* was made with exactly the same text, whitespace included.
C16_MemoizedOnceClassified ==
    /\ [](\A i \in Calls : \A j \in Calls :
            (i < j /\ Classified(i) /\ IsDetect(j) /\ SameText(i, j))
                => /\ calls[j].result = calls[i].result
                   /\ calls[j].hit
                   /\ calls[j].detector = "none")
    /\ [](\A j \in Calls :
            (IsDetect(j) /\ calls[j].hit)
                => \E i \in 1..(j - 1) : SameText(i, j))
    /\ [][\A k \in DOMAIN language_cache :
            /\ k \in DOMAIN language_cache'
            /\ language_cache'[k] = language_cache[k]]_vars

\* 'hi' is classified 'en' and asked again: answered from the cache.
C16_Witness ==
    \E i \in Calls : \E j \in Calls :
        /\ i < j /\ IsDetect(i) /\ IsDetect(j)
        /\ calls[i].text = T_hi /\ calls[j].text = T_hi
        /\ calls[i].detector = "ok" /\ calls[i].result = EN
        /\ calls[j].hit /\ calls[j].result = EN

\* C17: a translate_text call with no source language on a translator with
\* auto-detection on, in which detect_language answers 'zh', returns the text
\* it was given, does not call the backend and leaves the translation cache
\* as it was.
C17_DetectedZhIsNoOp ==
    [][(Len(calls') = Len(calls) + 1
          /\ calls'[Len(calls')].op = "translate"
          /\ calls'[Len(calls')].lang = None
          /\ auto_detect_language
          /\ calls'[Len(calls')].detected = ZH)
        => LET c == calls'[Len(calls')] IN
           /\ c.result = c.text
           /\ ~c.raised
           /\ c.backend = "none"
           /\ ~c.wrote
           /\ translation_cache' = translation_cache]_vars

\* langdetect answers 'zh-cn' for 'hi': the call returns 'hi'.
C17_Witness ==
    \E i \in Calls :
        /\ IsTranslate(i) /\ calls[i].lang = None /\ calls[i].text = T_hi
        /\ calls[i].detector = "ok" /\ calls[i].detected = ZH
        /\ calls[i].result = T_hi /\ calls[i].backend = "none"

\* C18 as claimed: no call of translate_text or detect_language changes
\* translator_service, api_key, base_url, model_name or auto_detect_language
\* of the translator.
C18_ConfigImmutable ==
    [][UNCHANGED <<translator_service, api_key, base_url, model_name,
                   auto_detect_language>>]_vars

----------------------------------------------------------------------------
\* Properties of the document driver, continued (SpecDriver).

Finished == \E i \in 1..Len(signals) : signals[i] = "finished"

\* C19: with a missing input the driver ends with an error for its caller
\* (translate_pdf raises, the worker emits error_occurred) without having
\* opened the document, extracted a page or called save; and when fitz.open or
\* doc.save raises, the driver ends at once with an error for its caller,
\* nothing is saved and the worker does not emit finished.
C19_DocumentFailuresAreFatal ==
    /\ ~input_exists
          => /\ pc \in {"start", "done"}
             /\ pc = "done" => ErrorEscaped
             /\ total_pages = 0 /\ ~doc_open /\ page_num = 0 /\ ev = NoEv
             /\ save_invoked = 0 /\ ~saved /\ ~Finished
    /\ io_failed
          => /\ pc = "done"
             /\ ErrorEscaped
             /\ ~saved /\ ~Finished

\* doc.save raises after the last page of a pass of translate_pdf.
C19_Witness ==
    /\ mode = "cli" /\ pc = "done" /\ io_failed /\ save_invoked = 1
    /\ page_num = total_pages /\ raised /\ ~saved

HasLatinLetter(text) == \E i \in 1..Len(text) : text[i] \in Latin

\* The driver passes the block on to detect_language and translate_text.
PassesFilter(text) == ~IsTargetScript(text) /\ HasLatinLetter(text)

\* C20: in every step of the block loop, detect_language is asked exactly for
\* a block that is not in the target script and has a Latin letter, on a
\* translator with auto-detection on; translate_text is called exactly for
\* such a block that was not classified 'zh', with the tag detect_language
\* returned (None with auto-detection off), which is the source language
\* translate_text builds its cache key from; _replace_text_in_page is called
\* exactly when translate_text returned a text different from the block's;
\* and when it is not called the page is left as it was.
C20_PerFragmentDecision ==
    [][(block_idx' = block_idx + 1 /\ ev'.kind = "block")
        => LET e == ev' IN
           /\ e.detected # None <=> (PassesFilter(e.text) /\ auto_detect_language)
           /\ e.translate <=> (PassesFilter(e.text) /\ e.detected # ZH)
           /\ e.translate
                 => (e.lang = e.detected /\ e.key = CacheKey(e.text, e.detected))
           /\ e.replace <=> (e.translate /\ e.translated # e.text)
           /\ ~e.replace => page' = page]_vars

\* A block classified 'en' is translated with source language 'en' and
\* rewritten.
C20_Witness ==
    /\ ev.kind = "block" /\ ev.text = T_hi /\ ev.detected = EN /\ ev.lang = EN
    /\ ev.translate /\ ev.replace /\ ev.did.insert = "ok"
    /\ page[ev.bbox] = ev.translated

\* What a step of the driver may do to the page index, the block index and
\* the count of doc.save calls.
OrderedStep ==
    /\ page_num' # page_num
          => /\ page_num' = page_num + 1
             /\ pc = "block" /\ block_idx = Len(text_blocks)
    /\ block_idx' # block_idx
          => \/ /\ block_idx' = block_idx + 1
                /\ text_blocks' = text_blocks
                /\ page_num' = page_num
                /\ ev'.kind = "block"
                /\ ev'.bbox = text_blocks[block_idx + 1].bbox
                /\ ev'.text = text_blocks[block_idx + 1].text
             \/ /\ block_idx' = 0 /\ page_num' = page_num + 1
    /\ save_invoked' # save_invoked
          => /\ save_invoked = 0 /\ save_invoked' = 1
             /\ pc = "page" /\ page_num = total_pages
    /\ save_invoked = 1
          => UNCHANGED <<page_num, page, text_blocks, block_idx, ev, modified,
                         translation_cache, language_cache>>

\* C21: the page index only ever goes up by one, and only when every block of
\* the page has been handled; the blocks of a page are in the order of their
\* spans and are handled one by one in that order; doc.save is called at most
\* once, and only with every page done; after the call of doc.save no page,
\* block or cache changes; and a pass that ends without a cancellation and
\* without a document failure has called doc.save exactly once.
C21_Ordering ==
    /\ [][OrderedStep]_vars
    /\ [](\A i \in 1..Len(text_blocks) : \A j \in 1..Len(text_blocks) :
             (i < j) => (text_blocks[i].bbox < text_blocks[j].bbox))
    /\ []((pc = "done" /\ input_exists /\ ~io_failed /\ ~observed_cancel)
             => (save_invoked = 1 /\ page_num = total_pages))

\* A pass of translate_pdf over three pages, with a rewrite, has saved.
C21_Witness ==
    /\ mode = "cli" /\ pc = "done" /\ total_pages = 3 /\ page_num = 3
    /\ save_invoked = 1 /\ saved /\ modified

----------------------------------------------------------------------------
\* Properties of the translation gateway, continued (Spec).

\* C22: a step changes the translation cache only if it is a translate_text
\* call whose backend call succeeded, and then it adds exactly the entry
\* (key, result) with key built from the text and the source language the
\* caller passed, the key the call looked up and missed; a translate_text
\* call that returns early, or whose backend call fails or is not reached,
\* and every detect_language call, leave the translation cache as it was.
C22_CacheWrittenOnSuccessOnly ==
    [][Len(calls') = Len(calls) + 1
        => LET c == calls'[Len(calls')]
               key == CacheKey(c.text, c.lang)
           IN  IF c.op = "translate" /\ c.backend = "ok"
               THEN /\ c.wrote
                    /\ c.key = key
                    /\ key \notin DOMAIN translation_cache
                    /\ translation_cache' = Put(translation_cache, key, c.result)
               ELSE /\ ~c.wrote
                    /\ translation_cache' = translation_cache]_vars

\* translate_text('hi', None) with auto-detection: langdetect says 'en', the
\* backend answers, and the entry is stored under 'hi'.
C22_Witness ==
    \E i \in Calls :
        /\ IsTranslate(i) /\ calls[i].text = T_hi /\ calls[i].lang = None
        /\ calls[i].detected = EN /\ calls[i].backend = "ok" /\ calls[i].wrote
        /\ T_hi \in DOMAIN translation_cache

----------------------------------------------------------------------------
\* Properties of the document driver and the worker thread (SpecDriver).

\* C23 as claimed: when a pass of the driver has ended, by returning or by
\* raising, the document it opened has been closed.
C23_DocumentClosedOnExit ==
    pc = "done" => ~doc_open

\* C24 as claimed: when run() of the worker has returned, it has emitted
\* finished or error_occurred, so the translate button is enabled again and
\* the cancel button disabled.
C24_TerminatedRunNotifies ==
    (mode = "gui" /\ pc = "done")
        => (Notified /\ translate_btn_enabled /\ ~cancel_btn_enabled)

\* C25 as claimed: when run() of the worker has returned, it has emitted
\* finished exactly if doc.save has written the output; in particular it has
\* not written the output and then reported the cancellation in place of
\* finished.
C25_FinishedIffSaved ==
    (mode = "gui" /\ pc = "done") => (Finished <=> saved)

====
